---- MODULE Spec2Model ----
(***************************************************************************)
(* A model of the configuration manager of anchor-kit                      *)
(* (src/src/core/config.ts, class AnchorConfig): defaulting                *)
(* (mergeWithDefaults), the recursive freeze (deepFreeze), the accessors   *)
(* and validate().                                                         *)
(*                                                                         *)
(* JavaScript values are tagged records.  A JavaScript string is the       *)
(* sequence of its tokens (a token is a maximal run of the characters      *)
(* [A-Za-z0-9+.-], or a run of text that the program never looks into), so *)
(* that startsWith, URL parsing and "the message contains" are computed    *)
(* and not assumed.  Objects live in a heap and are referred to by         *)
(* address, so that freezing, aliasing and writes by the caller are        *)
(* visible.                                                                *)
(***************************************************************************)
EXTENDS Integers, Sequences, FiniteSets, TLC

VARIABLES
    input,      \* the configuration literal the caller passes to the constructor
    heap,       \* address -> object (the caller's objects and the manager's)
    pc,         \* "start" (before new AnchorConfig), "ready", "threw"
    config,     \* the private field this.config (a value; Undef before construction)
    vlog,       \* the outcomes of the validate() calls made so far, in order
    nwrites,    \* number of writes by callers that changed an object
    last        \* the last lookup made on the manager: its name, argument and outcome

vars == <<input, heap, pc, config, vlog, nwrites, last>>

(***************************************************************************)
(* Bounds of the model.                                                    *)
(***************************************************************************)
MaxDefects == 2     \* fields in which the input differs from the test suite's valid base
MaxCalls == 2       \* validate() calls per manager
MaxWrites == 1      \* writes per manager that take effect

(***************************************************************************)
(* JavaScript values.                                                      *)
(***************************************************************************)
Undef == [t |-> "undefined"]
Null == [t |-> "null"]
Str(s) == [t |-> "string", s |-> s]
Num(n) == [t |-> "number", n |-> n]
Bool(b) == [t |-> "boolean", b |-> b]
Ref(a) == [t |-> "object", a |-> a]

IsRef(v) == v.t = "object"

\* ToBoolean: what `!x`, `x || y` and `if (x)` test.
Truthy(v) ==
    CASE v.t = "undefined" -> FALSE
      [] v.t = "null" -> FALSE
      [] v.t = "string" -> v.s # <<>>
      [] v.t = "number" -> v.n # 0
      [] v.t = "boolean" -> v.b
      [] OTHER -> TRUE

\* a || b
Or(a, b) == IF Truthy(a) THEN a ELSE b

\* a ?? b taken for a || b
Coalesce_falsy(a, b) == IF Truthy(a) THEN a ELSE b

\* a ?? b
Coalesce(a, b) == IF a.t \in {"undefined", "null"} THEN b ELSE a

\* String(v), as a template literal `${v}` computes it (for the values of the model).
JsString(v) ==
    CASE v.t = "string" -> v.s
      [] v.t = "undefined" -> <<"undefined">>
      [] v.t = "null" -> <<"null">>
      [] v.t = "boolean" -> IF v.b THEN <<"true">> ELSE <<"false">>
      [] OTHER -> <<"[object Object]">>

(***************************************************************************)
(* Strings as token sequences.                                             *)
(***************************************************************************)
\* s.startsWith(prefix)
StartsWith(s, prefix) ==
    /\ Len(s) >= Len(prefix)
    /\ SubSeq(s, 1, Len(prefix)) = prefix

\* s.includes(pat) / a regular expression made of the literal text pat matching s
Contains(s, pat) ==
    \E i \in 1..(Len(s) - Len(pat) + 1) : SubSeq(s, i, i + Len(pat) - 1) = pat

RECURSIVE Join(_, _)
\* parts.join(sep)
Join(parts, sep) ==
    IF parts = <<>> THEN <<>>
    ELSE IF Len(parts) = 1 THEN parts[1]
    ELSE parts[1] \o sep \o Join(Tail(parts), sep)

\* The strings of the model.
S_testnet == <<"testnet">>
S_public == <<"public">>
S_futurenet == <<"futurenet">>
S_invalidnet == <<"invalidnet">>
S_secret == <<"secret-key">>
S_custom == <<"Custom Network Passphrase">>
S_tampered == <<"tampered">>
P_public == <<"Public Global Stellar Network ; September 2015">>
P_testnet == <<"Test SDF Network ; September 2015">>
P_futurenet == <<"Test SDF Future Network ; Fall 2022">>
U_https == <<"https", ":", "/", "/", "anchor.example.com">>
U_ftp == <<"ftp", ":", "/", "/", "anchor.example.com">>
U_bad == <<"not-a-url">>
DB_postgresql == <<"postgresql", ":", "/", "/", "localhost", ":", "5432", "/", "anchor">>
DB_file == <<"file", ":", ".", "/", "dev.db">>
DB_bad == <<"invalid-url-string">>
DB_mongodb == <<"mongodb", ":", "/", "/", "localhost", "/", "anchor">>

(***************************************************************************)
(* The heap.  An object is a record: frozen (Object.isFrozen), arr         *)
(* (Array.isArray), p (own properties of a plain object, by name) and e    *)
(* (the elements of an array).  The heap is a function from the addresses  *)
(* in use to the objects at them.                                         *)
(***************************************************************************)
NoProps == [k \in {} |-> Undef]
Obj(props) == [frozen |-> FALSE, arr |-> FALSE, p |-> props, e |-> <<>>]
Arr(elems) == [frozen |-> FALSE, arr |-> TRUE, p |-> NoProps, e |-> elems]

\* The heap h with the new object o at the address a.
Alloc(h, a, o) == (a :> o) @@ h

\* The caller's objects, one address per place of the configuration literal.
InputAddr ==
    {"in", "in.network", "in.server", "in.server.corsOrigins", "in.security",
     "in.assets", "in.assets.assets", "in.assets.assets[0]", "in.assets.assets[1]",
     "in.framework", "in.framework.database", "in.metadata",
     "in.kycRequired", "in.kycRequired.USDC", "in.operational"}

\* The objects the constructor allocates.
ManagerAddr == {"{}", "merged", "merged.network", "merged.operational"}

Addr == InputAddr \cup ManagerAddr

\* Object.getOwnPropertyNames order of the objects of the model (insertion order).
KeyOrder ==
    <<"network", "horizonUrl", "networkPassphrase",
      "server", "security", "assets", "kyc", "kycRequired", "operational",
      "metadata", "framework",
      "port", "interactiveDomain", "corsOrigins",
      "sep10SigningKey", "interactiveJwtSecret", "distributionAccountSecret",
      "code", "issuer",
      "database", "provider", "url", "owner",
      "tomlUrl", "USDC",
      "name", "website", "supportEmail", "address", "webhooksEnabled",
      "queueBackend", "redisUrl", "corsEnabled", "transactionRetentionDays",
      "extra">>

\* Optional-chaining property read  v?.[k]  (undefined on undefined, null and
\* on a primitive of the model; "length" of an array is its number of elements).
Prop(h, v, k) ==
    IF ~IsRef(v) THEN Undef
    ELSE LET o == h[v.a] IN
         IF o.arr THEN (IF k = "length" THEN Num(Len(o.e)) ELSE Undef)
         ELSE IF k \in DOMAIN o.p THEN o.p[k] ELSE Undef

\* Object.prototype.hasOwnProperty.call(v, k)
HasOwn(h, v, k) == IsRef(v) /\ ~h[v.a].arr /\ k \in DOMAIN h[v.a].p

\* Array.isArray(v)
IsArray(h, v) == IsRef(v) /\ h[v.a].arr

\* The record  base  with key k added when  present.
With(base, present, k, v) == IF present THEN (k :> v) @@ base ELSE base

(***************************************************************************)
(* The inputs.  An input is the configuration literal of the test suite    *)
(* (validBaseConfig, src/tests/core/config.test.ts:7-29) changed in at     *)
(* most MaxDefects places.  Each place holds a code; InputHeap gives the   *)
(* object graph the code stands for.  "absent" is a key that is not in     *)
(* the literal; "undefined" is a key written with the value undefined.     *)
(***************************************************************************)
Base ==
    [root |-> "object",
     network |-> "object", netId |-> "testnet", horizonUrl |-> "absent",
     passphrase |-> "absent",
     server |-> "object", interactiveDomain |-> "absent", corsOrigins |-> "absent",
     security |-> "object", sep10 |-> "ok", jwt |-> "ok", dist |-> "ok",
     assets |-> "object", assetList |-> "one",
     framework |-> "object", database |-> "object", provider |-> "postgres",
     url |-> "postgresql",
     metadata |-> "absent", kycRequired |-> "absent", operational |-> "absent",
     shape |-> "plain"]

\* The other codes of each place.
Alternatives ==
    [root |-> {"undefined"},
     network |-> {"absent", "undefined", "null"},
     netId |-> {"absent", "empty", "public", "futurenet", "invalidnet"},
     horizonUrl |-> {"https", "bad"},
     passphrase |-> {"empty", "custom"},
     server |-> {"absent"},
     interactiveDomain |-> {"https", "bad", "ftp", "empty"},
     corsOrigins |-> {"list"},
     security |-> {"absent"},
     sep10 |-> {"absent", "empty"},
     jwt |-> {"empty"},
     dist |-> {"absent"},
     assets |-> {"absent"},
     assetList |-> {"absent", "empty", "two", "twins", "notarray", "withNull"},
     framework |-> {"absent"},
     database |-> {"absent"},
     provider |-> {"absent"},
     url |-> {"absent", "empty", "file", "bad", "mongodb"},
     metadata |-> {"object", "https", "bad"},
     kycRequired |-> {"mapped"},
     operational |-> {"partial"},
     shape |-> {"frozenFramework", "frozenServer", "cyclic", "shared"}]

\* <<place, code>>: one change of the base literal.
Changes == UNION {{<<f, c>> : c \in Alternatives[f]} : f \in DOMAIN Base}

RECURSIVE Changed(_)
\* The inputs that differ from Base in at most n places.
Changed(n) ==
    IF n = 0 THEN {Base}
    ELSE LET prev == Changed(n - 1)
         IN prev \cup {[c EXCEPT ![ch[1]] = ch[2]] : c \in prev, ch \in Changes}

\* No place is changed inside a section that the literal does not have.
WellFormed(c) ==
    LET same(places) == \A f \in places : c[f] = Base[f] IN
    /\ c.root = "undefined" => same(DOMAIN Base \ {"root"})
    /\ c.network # "object" => same({"netId", "horizonUrl", "passphrase"})
    /\ c.server # "object" =>
          same({"interactiveDomain", "corsOrigins"})
          /\ c.shape \notin {"frozenServer", "cyclic"}
    /\ c.security # "object" => same({"sep10", "jwt", "dist"})
    /\ c.assets # "object" => same({"assetList"})
    /\ c.framework # "object" =>
          same({"database", "provider", "url"}) /\ c.shape # "frozenFramework"
    /\ c.database # "object" => same({"provider", "url"})
    /\ c.shape = "shared" => c.kycRequired = "mapped"

Inputs == {c \in Changed(MaxDefects) : WellFormed(c)}

\* The string a code stands for.
StringOf(code) ==
    CASE code = "empty" -> <<>>
      [] code = "ok" -> S_secret
      [] code = "testnet" -> S_testnet
      [] code = "public" -> S_public
      [] code = "futurenet" -> S_futurenet
      [] code = "invalidnet" -> S_invalidnet
      [] code = "custom" -> S_custom
      [] code = "https" -> U_https
      [] code = "ftp" -> U_ftp
      [] code = "bad" -> U_bad
      [] code = "postgres" -> <<"postgres">>
      [] code = "postgresql" -> DB_postgresql
      [] code = "file" -> DB_file
      [] code = "mongodb" -> DB_mongodb

\* The object graph of the input c, as the caller holds it before construction.
InputHeap(c) ==
    LET dbUrl == IF c.url = "bad" THEN Str(DB_bad) ELSE Str(StringOf(c.url))
        network ==
            With(With(With(NoProps,
                c.netId # "absent", "network", Str(StringOf(c.netId))),
                c.horizonUrl # "absent", "horizonUrl", Str(StringOf(c.horizonUrl))),
                c.passphrase # "absent", "networkPassphrase", Str(StringOf(c.passphrase)))
        server ==
            With(With(With(("port" :> Num(3000)),
                c.interactiveDomain # "absent", "interactiveDomain",
                    Str(StringOf(c.interactiveDomain))),
                c.corsOrigins # "absent", "corsOrigins", Ref("in.server.corsOrigins")),
                c.shape = "cyclic", "owner", Ref("in"))
        security ==
            With(With(With(NoProps,
                c.sep10 # "absent", "sep10SigningKey", Str(StringOf(c.sep10))),
                c.jwt # "absent", "interactiveJwtSecret", Str(StringOf(c.jwt))),
                c.dist # "absent", "distributionAccountSecret", Str(StringOf(c.dist)))
        assets ==
            With(NoProps, c.assetList # "absent", "assets",
                 IF c.assetList = "notarray" THEN Str(<<"USDC">>)
                 ELSE Ref("in.assets.assets"))
        assetList ==
            CASE c.assetList = "one" -> <<Ref("in.assets.assets[0]")>>
              [] c.assetList \in {"two", "twins"} ->
                    <<Ref("in.assets.assets[0]"), Ref("in.assets.assets[1]")>>
              [] c.assetList = "withNull" -> <<Ref("in.assets.assets[0]"), Null>>
              [] OTHER -> <<>>
        database ==
            With(With(NoProps,
                c.provider # "absent", "provider", Str(StringOf(c.provider))),
                c.url # "absent", "url", dbUrl)
        framework ==
            With(NoProps, c.database # "absent", "database", Ref("in.framework.database"))
        metadata ==
            With(NoProps, c.metadata \in {"https", "bad"}, "tomlUrl",
                 Str(StringOf(c.metadata)))
        top ==
            With(With(With(With(With(With(With(With(With(NoProps,
                c.network # "absent", "network",
                    CASE c.network = "undefined" -> Undef
                      [] c.network = "null" -> Null
                      [] OTHER -> Ref("in.network")),
                c.server # "absent", "server", Ref("in.server")),
                c.security # "absent", "security", Ref("in.security")),
                c.assets # "absent", "assets", Ref("in.assets")),
                c.framework # "absent", "framework", Ref("in.framework")),
                c.metadata # "absent", "metadata", Ref("in.metadata")),
                c.kycRequired # "absent", "kycRequired", Ref("in.kycRequired")),
                \* one object under two keys:  { kyc: k, kycRequired: k }
                c.shape = "shared", "kyc", Ref("in.kycRequired")),
                c.operational # "absent", "operational", Ref("in.operational"))
        objects ==
            [a \in Addr |->
                CASE a = "in" -> Obj(top)
                  [] a = "in.network" -> Obj(network)
                  [] a = "in.server" -> Obj(server)
                  [] a = "in.server.corsOrigins" -> Arr(<<Str(U_https)>>)
                  [] a = "in.security" -> Obj(security)
                  [] a = "in.assets" -> Obj(assets)
                  [] a = "in.assets.assets" -> Arr(assetList)
                  [] a = "in.assets.assets[0]" ->
                        Obj([code |-> Str(<<"USDC">>), issuer |-> Str(<<"GBBD47IF">>)])
                  [] a = "in.assets.assets[1]" ->
                        IF c.assetList = "twins"
                        THEN Obj([code |-> Str(<<"USDC">>), issuer |-> Str(<<"GA5ZSEJY">>)])
                        ELSE Obj([code |-> Str(<<"usdc">>), issuer |-> Str(<<"GBBD47IF">>)])
                  [] a = "in.framework" -> Obj(framework)
                  [] a = "in.framework.database" -> Obj(database)
                  [] a = "in.metadata" -> Obj(metadata)
                  [] a = "in.kycRequired" -> Obj(("USDC" :> Ref("in.kycRequired.USDC")))
                  [] a = "in.kycRequired.USDC" ->
                        Arr(<<Str(<<"first_name">>), Str(<<"email">>)>>)
                  [] a = "in.operational" ->
                        Obj([webhooksEnabled |-> Bool(FALSE), name |-> Str(<<"Anchor">>),
                             transactionRetentionDays |-> Num(0)])
                  [] OTHER -> Obj(NoProps)]
        \* the objects the literal mentions
        used ==
            {"in"}
            \cup (IF c.network = "object" THEN {"in.network"} ELSE {})
            \cup (IF c.server = "object" THEN {"in.server"} ELSE {})
            \cup (IF c.server = "object" /\ c.corsOrigins # "absent"
                  THEN {"in.server.corsOrigins"} ELSE {})
            \cup (IF c.security # "absent" THEN {"in.security"} ELSE {})
            \cup (IF c.assets # "absent" THEN {"in.assets"} ELSE {})
            \cup (IF c.assets # "absent" /\ c.assetList \in {"empty", "one", "two", "twins", "withNull"}
                  THEN {"in.assets.assets"} ELSE {})
            \cup (IF c.assets # "absent" /\ c.assetList \in {"one", "two", "twins", "withNull"}
                  THEN {"in.assets.assets[0]"} ELSE {})
            \cup (IF c.assets # "absent" /\ c.assetList \in {"two", "twins"}
                  THEN {"in.assets.assets[1]"} ELSE {})
            \cup (IF c.framework # "absent" THEN {"in.framework"} ELSE {})
            \cup (IF c.framework # "absent" /\ c.database # "absent"
                  THEN {"in.framework.database"} ELSE {})
            \cup (IF c.metadata # "absent" THEN {"in.metadata"} ELSE {})
            \cup (IF c.kycRequired # "absent"
                  THEN {"in.kycRequired", "in.kycRequired.USDC"} ELSE {})
            \cup (IF c.operational # "absent" THEN {"in.operational"} ELSE {})
        \* the objects the caller froze (Object.freeze, shallow) before construction
        callerFrozen ==
            CASE c.shape = "frozenFramework" -> {"in.framework"}
              [] c.shape = "frozenServer" -> {"in.server"}
              [] OTHER -> {}
    IN [a \in (IF c.root = "undefined" THEN {} ELSE used) |->
          [objects[a] EXCEPT !.frozen = (a \in callerFrozen)]]

\* The argument of the constructor.
InputValue(c) == IF c.root = "undefined" THEN Undef ELSE Ref("in")

(***************************************************************************)
(* new URL(s), as far as the program looks at it: whether it parses, and   *)
(* its protocol.  (WHATWG URL, without a base URL: a scheme and ":" are    *)
(* required; the scheme is lowercased; an http, https, ftp, ws or wss URL  *)
(* needs a host.)                                                          *)
(***************************************************************************)
\* tokens of the model that have the shape of a scheme: [A-Za-z][A-Za-z0-9+.-]*
SchemeShaped ==
    {"http", "https", "HTTPS", "ftp", "ws", "wss", "file", "postgresql", "postgres",
     "mysql", "mysql2", "sqlite", "mongodb", "localhost", "anchor.example.com",
     "anchor", "dev.db", "not-a-url", "invalid-url-string", "tampered", "USDC"}

\* tokens of the model that parse as a host
HostShaped == SchemeShaped \cup {"5432"}

SpecialSchemes == {"http", "https", "ftp", "ws", "wss"}

\* ASCII lowercase of a token
Lower(tok) ==
    CASE tok = "HTTPS" -> "https"
      [] tok = "USDC" -> "usdc"
      [] OTHER -> tok

RECURSIVE SkipSlashes(_)
SkipSlashes(s) == IF s # <<>> /\ Head(s) = "/" THEN SkipSlashes(Tail(s)) ELSE s

UrlParse(s) ==
    IF Len(s) < 2 \/ s[1] \notin SchemeShaped \/ s[2] # ":"
    THEN [ok |-> FALSE, protocol |-> <<>>]
    ELSE LET scheme == Lower(s[1])
             rest == SkipSlashes(SubSeq(s, 3, Len(s)))
         IN IF scheme \in SpecialSchemes /\ (rest = <<>> \/ rest[1] \notin HostShaped)
            THEN [ok |-> FALSE, protocol |-> <<>>]
            ELSE [ok |-> TRUE, protocol |-> <<scheme, ":">>]

\* typeof globalThis.URL === 'function' (true on the runtimes the package runs on)
UrlCtorAvailable == TRUE

\* isValidUrl without the test of the protocol
isValidUrl_anyScheme(urlString) ==
    IF ~UrlCtorAvailable THEN FALSE
    ELSE UrlParse(JsString(urlString)).ok

\* AnchorConfig.isValidUrl
isValidUrl(urlString) ==
    IF ~UrlCtorAvailable THEN FALSE
    ELSE LET url == UrlParse(JsString(urlString))
         IN url.ok /\ (url.protocol = <<"http", ":">> \/ url.protocol = <<"https", ":">>)

validSchemes ==
    << <<"postgresql", ":">>, <<"postgres", ":">>, <<"mysql", ":">>,
       <<"mysql2", ":">>, <<"sqlite", ":">>, <<"file", ":">> >>

\* isValidDatabaseUrl without the fallback to new URL
isValidDatabaseUrl_schemesOnly(urlString) ==
    IF ~Truthy(urlString) \/ urlString.t # "string" THEN FALSE
    ELSE \E i \in DOMAIN validSchemes : StartsWith(urlString.s, validSchemes[i])

\* AnchorConfig.isValidDatabaseUrl
isValidDatabaseUrl(urlString) ==
    IF ~Truthy(urlString) \/ urlString.t # "string" THEN FALSE
    ELSE IF \E i \in DOMAIN validSchemes : StartsWith(urlString.s, validSchemes[i])
    THEN TRUE
    ELSE UrlCtorAvailable /\ UrlParse(urlString.s).ok

(***************************************************************************)
(* Defaulting: AnchorConfig.mergeWithDefaults.                             *)
(***************************************************************************)
\* defaultNetworkPassphrases[key]
defaultNetworkPassphrases(key) ==
    IF key.t # "string" THEN Undef
    ELSE CASE key.s = S_public -> Str(P_public)
           [] key.s = S_testnet -> Str(P_testnet)
           [] key.s = S_futurenet -> Str(P_futurenet)
           [] OTHER -> Undef

\* networkInput?.network || 'testnet'
DefaultedNetworkId(h, networkInput) == Or(Prop(h, networkInput, "network"), Str(S_testnet))

\* networkInput?.networkPassphrase || defaultNetworkPassphrases[...]
DefaultedPassphrase(h, networkInput) ==
    Or(Prop(h, networkInput, "networkPassphrase"),
       defaultNetworkPassphrases(DefaultedNetworkId(h, networkInput)))

\* The condition under which the network section is left undefined (line 30).
LeavesNetworkUndefined(hasNetworkProp, networkInput) ==
    hasNetworkProp /\ networkInput.t = "undefined"

\* a section copied with null in the place of a section that is not there
PassedThrough_nulled(h, inp, k) == Coalesce(Prop(h, inp, k), Null)

\* server: config.server, and the like: the section as the input holds it
PassedThrough(h, inp, k) == Prop(h, inp, k)

\* The heap after mergeWithDefaults(input): the objects "merged",
\* "merged.network" and "merged.operational" are allocated.
mergeWithDefaults(h, inp) ==
    LET hasNetworkProp == HasOwn(h, inp, "network")
        networkInput == Prop(h, inp, "network")
        noNetwork == LeavesNetworkUndefined(hasNetworkProp, networkInput)
        network ==
            Obj([network |-> DefaultedNetworkId(h, networkInput),
                 horizonUrl |-> Prop(h, networkInput, "horizonUrl"),
                 networkPassphrase |-> DefaultedPassphrase(h, networkInput)])
        operationalInput == Prop(h, inp, "operational")
        operational ==
            Obj([name |-> Prop(h, operationalInput, "name"),
                 website |-> Prop(h, operationalInput, "website"),
                 supportEmail |-> Prop(h, operationalInput, "supportEmail"),
                 address |-> Prop(h, operationalInput, "address"),
                 webhooksEnabled |->
                     Coalesce(Prop(h, operationalInput, "webhooksEnabled"), Bool(TRUE)),
                 queueBackend |->
                     Coalesce(Prop(h, operationalInput, "queueBackend"), Str(<<"memory">>)),
                 redisUrl |-> Prop(h, operationalInput, "redisUrl"),
                 corsEnabled |->
                     Coalesce(Prop(h, operationalInput, "corsEnabled"), Bool(TRUE)),
                 transactionRetentionDays |->
                     Coalesce(Prop(h, operationalInput, "transactionRetentionDays"),
                              Num(90))])
        merged ==
            Obj([network |-> IF noNetwork THEN Undef ELSE Ref("merged.network"),
                 server |-> PassedThrough(h, inp, "server"),
                 security |-> PassedThrough(h, inp, "security"),
                 assets |-> PassedThrough(h, inp, "assets"),
                 kyc |-> PassedThrough(h, inp, "kyc"),
                 kycRequired |-> PassedThrough(h, inp, "kycRequired"),
                 operational |-> Ref("merged.operational"),
                 metadata |-> PassedThrough(h, inp, "metadata"),
                 framework |-> PassedThrough(h, inp, "framework")])
    IN Alloc(Alloc(IF noNetwork THEN h ELSE Alloc(h, "merged.network", network),
                   "merged.operational", operational),
             "merged", merged)

(***************************************************************************)
(* The snapshotter: AnchorConfig.deepFreeze.  The result is the heap and   *)
(* whether the call returned; it does not return when the recursion        *)
(* re-enters an object it is still working on (nothing is frozen between   *)
(* the two entries, so the recursion repeats until the stack overflows).   *)
(***************************************************************************)
\* The values of the own properties, in Object.getOwnPropertyNames order
\* (for an array: its elements, then "length").
OwnValues(o) ==
    IF o.arr THEN o.e \o <<Num(Len(o.e))>>
    ELSE LET keys == SelectSeq(KeyOrder, LAMBDA k : k \in DOMAIN o.p)
         IN [i \in 1..Len(keys) |-> o.p[keys[i]]]

\* Descends of a freeze that goes into frozen objects too
Descends_intoFrozen(h, value) == Truthy(value) /\ IsRef(value)

\* The test of line 83: the child is descended into.
Descends(h, value) == Truthy(value) /\ IsRef(value) /\ ~h[value.a].frozen

RECURSIVE deepFreeze(_, _, _)
RECURSIVE freezeChildren(_, _, _, _)
\* the for loop of lines 81-86, from the i-th own property on
freezeChildren(h, values, i, stack) ==
    IF i > Len(values) THEN [h |-> h, ok |-> TRUE]
    ELSE IF Descends(h, values[i])
         THEN LET r == deepFreeze(h, values[i], stack)
              IN IF r.ok THEN freezeChildren(r.h, values, i + 1, stack) ELSE r
         ELSE freezeChildren(h, values, i + 1, stack)

deepFreeze(h, obj, stack) ==
    IF ~IsRef(obj) THEN [h |-> h, ok |-> TRUE]
    ELSE IF obj.a \in stack THEN [h |-> h, ok |-> FALSE]
    ELSE LET r == freezeChildren(h, OwnValues(h[obj.a]), 1, stack \cup {obj.a})
         IN IF r.ok THEN [h |-> [r.h EXCEPT ![obj.a].frozen = TRUE], ok |-> TRUE]
            ELSE r

(***************************************************************************)
(* AnchorConfig.validate.  The outcome of a call is a record: threw, the   *)
(* name of the error's class and its message.                              *)
(***************************************************************************)
Returned == [threw |-> FALSE, name |-> "", message |-> <<>>]

\* a ConfigError with the codes of ValidationError
ConfigError_asValidationError(message, context) ==
    [threw |-> TRUE, name |-> "ConfigError", statusCode |-> 400,
     errorCode |-> "INVALID_REQUEST", message |-> message, context |-> context]

\* new ConfigError(message, context): an AnchorKitError whose name is the name
\* of its class, with statusCode 500 and errorCode 'INVALID_CONFIG'
ConfigError(message, context) ==
    [threw |-> TRUE, name |-> "ConfigError", statusCode |-> 500,
     errorCode |-> "INVALID_CONFIG", message |-> message, context |-> context]

\* new ConfigurationError(message): ConfigurationError is ConfigError, and
\* validate() passes no context
ConfigurationError(message) == ConfigError(message, Undef)

\* The names of the sections and of the fields, as they are spelled in messages.
SectionNames ==
    [network |-> <<"network">>, server |-> <<"server">>, security |-> <<"security">>,
     assets |-> <<"asset", "s">>, framework |-> <<"framework">>]
SecretNames ==
    [sep10SigningKey |-> <<"security", ".", "sep10SigningKey">>,
     interactiveJwtSecret |-> <<"security", ".", "interactiveJwtSecret">>,
     distributionAccountSecret |-> <<"security", ".", "distributionAccountSecret">>]

MissingSection(k) ==
    ConfigurationError(<<"Missing required top-level field: ">> \o SectionNames[k])
MissingSecret(k) ==
    ConfigurationError(<<"Missing required secret: ">> \o SecretNames[k])
NoAssets ==
    ConfigurationError(<<"At least one ", "asset", " must be configured in ",
                         "asset", "s", ".", "asset", "s">>)
MissingDatabase ==
    ConfigurationError(<<"Missing required ", "database", " configuration in ",
                         "framework", ".", "database">>)
InvalidDatabaseUrl == ConfigurationError(<<"Invalid ", "database", " URL format">>)
InvalidUrl(field) == ConfigurationError(<<"Invalid URL format for ">> \o field)

validNetworks == <<S_public, S_testnet, S_futurenet>>

InvalidNetwork(value) ==
    ConfigurationError(<<"Invalid ", "network", ": ">> \o JsString(value)
                       \o <<". Must be one of: ">> \o Join(validNetworks, <<", ">>))

\* r, and when r did not throw, what follows it
Then(r, next) == IF r.threw THEN r ELSE next

\* lines 168-170
checkConfigObject(h, cfg) ==
    IF ~Truthy(cfg) THEN ConfigurationError(<<"Configuration object is missing">>)
    ELSE Returned

\* lines 174-189
checkSections(h, cfg) ==
    IF ~Truthy(Prop(h, cfg, "network")) THEN MissingSection("network")
    ELSE IF ~Truthy(Prop(h, cfg, "server")) THEN MissingSection("server")
    ELSE IF ~Truthy(Prop(h, cfg, "security")) THEN MissingSection("security")
    ELSE IF ~Truthy(Prop(h, cfg, "assets")) THEN MissingSection("assets")
    ELSE IF ~Truthy(Prop(h, cfg, "framework")) THEN MissingSection("framework")
    ELSE Returned

\* checkSecrets with the three tests in the opposite order
checkSecrets_reversed(h, cfg) ==
    LET security == Prop(h, cfg, "security") IN
    IF ~Truthy(Prop(h, security, "distributionAccountSecret"))
    THEN MissingSecret("distributionAccountSecret")
    ELSE IF ~Truthy(Prop(h, security, "interactiveJwtSecret"))
    THEN MissingSecret("interactiveJwtSecret")
    ELSE IF ~Truthy(Prop(h, security, "sep10SigningKey"))
    THEN MissingSecret("sep10SigningKey")
    ELSE Returned

\* lines 191-200
checkSecrets(h, cfg) ==
    LET security == Prop(h, cfg, "security") IN
    IF ~Truthy(Prop(h, security, "sep10SigningKey"))
    THEN MissingSecret("sep10SigningKey")
    ELSE IF ~Truthy(Prop(h, security, "interactiveJwtSecret"))
    THEN MissingSecret("interactiveJwtSecret")
    ELSE IF ~Truthy(Prop(h, security, "distributionAccountSecret"))
    THEN MissingSecret("distributionAccountSecret")
    ELSE Returned

\* checkAssets without the test of the length
checkAssets_anyList(h, cfg) ==
    LET list == Prop(h, Prop(h, cfg, "assets"), "assets") IN
    IF ~Truthy(list) \/ ~IsArray(h, list) THEN NoAssets ELSE Returned

\* lines 202-205
checkAssets(h, cfg) ==
    LET list == Prop(h, Prop(h, cfg, "assets"), "assets") IN
    IF ~Truthy(list) \/ ~IsArray(h, list) \/ Prop(h, list, "length") = Num(0)
    THEN NoAssets
    ELSE Returned

\* lines 207-215
checkDatabase(h, cfg) ==
    LET database == Prop(h, Prop(h, cfg, "framework"), "database") IN
    IF \/ ~Truthy(database)
       \/ ~Truthy(Prop(h, database, "provider"))
       \/ ~Truthy(Prop(h, database, "url"))
    THEN MissingDatabase
    ELSE IF ~isValidDatabaseUrl(Prop(h, database, "url")) THEN InvalidDatabaseUrl
    ELSE Returned

\* checkUrls that tests server.interactiveDomain alone
checkUrls_domainOnly(h, cfg) ==
    LET interactiveDomain == Prop(h, Prop(h, cfg, "server"), "interactiveDomain") IN
    IF Truthy(interactiveDomain) /\ ~isValidUrl(interactiveDomain)
    THEN InvalidUrl(<<"server", ".", "interactiveDomain">>)
    ELSE Returned

\* lines 217-229
checkUrls(h, cfg) ==
    LET interactiveDomain == Prop(h, Prop(h, cfg, "server"), "interactiveDomain")
        horizonUrl == Prop(h, Prop(h, cfg, "network"), "horizonUrl")
        tomlUrl == Prop(h, Prop(h, cfg, "metadata"), "tomlUrl")
    IN
    IF Truthy(interactiveDomain) /\ ~isValidUrl(interactiveDomain)
    THEN InvalidUrl(<<"server", ".", "interactiveDomain">>)
    ELSE IF Truthy(horizonUrl) /\ ~isValidUrl(horizonUrl)
    THEN InvalidUrl(<<"network", ".", "horizonUrl">>)
    ELSE IF Truthy(tomlUrl) /\ ~isValidUrl(tomlUrl)
    THEN InvalidUrl(<<"metadata", ".", "tomlUrl">>)
    ELSE Returned

\* checkNetworkId with a list of networks that lacks futurenet
checkNetworkId_noFuturenet(h, cfg) ==
    LET id == Prop(h, Prop(h, cfg, "network"), "network") IN
    IF ~(id = Str(S_public) \/ id = Str(S_testnet)) THEN InvalidNetwork(id)
    ELSE Returned

\* lines 231-237
checkNetworkId(h, cfg) ==
    LET id == Prop(h, Prop(h, cfg, "network"), "network") IN
    IF ~(\E i \in DOMAIN validNetworks : id = Str(validNetworks[i]))
    THEN InvalidNetwork(id)
    ELSE Returned

\* validate with the asset list tested before the secrets
validate_assetsBeforeSecrets(h, cfg) ==
    Then(checkConfigObject(h, cfg),
    Then(checkSections(h, cfg),
    Then(checkAssets(h, cfg),
    Then(checkSecrets(h, cfg),
    Then(checkDatabase(h, cfg),
    Then(checkUrls(h, cfg),
         checkNetworkId(h, cfg)))))))

\* The outcome of validate() on the configuration cfg in the heap h.
validate(h, cfg) ==
    Then(checkConfigObject(h, cfg),
    Then(checkSections(h, cfg),
    Then(checkSecrets(h, cfg),
    Then(checkAssets(h, cfg),
    Then(checkDatabase(h, cfg),
    Then(checkUrls(h, cfg),
         checkNetworkId(h, cfg)))))))

(***************************************************************************)
(* What a reader sees.                                                     *)
(***************************************************************************)
RECURSIVE DeepValue(_, _)
\* The value v with every object replaced by its contents (the tree that
\* JSON-like inspection through getConfig() reads).
DeepValue(h, v) ==
    IF ~IsRef(v) THEN v
    ELSE LET o == h[v.a] IN
         IF o.arr THEN [t |-> "array", e |-> [i \in DOMAIN o.e |-> DeepValue(h, o.e[i])]]
         ELSE [t |-> "object", p |-> [k \in DOMAIN o.p |-> DeepValue(h, o.p[k])]]

\* The addresses of the objects v refers to, directly as a property or element.
Children(h, a) ==
    LET o == h[a] IN
    {o.e[i].a : i \in {j \in DOMAIN o.e : IsRef(o.e[j])}}
    \cup {o.p[k].a : k \in {j \in DOMAIN o.p : IsRef(o.p[j])}}

RECURSIVE ReachableFrom(_, _)
ReachableFrom(h, seen) ==
    LET more == seen \cup UNION {Children(h, a) : a \in seen}
    IN IF more = seen THEN seen ELSE ReachableFrom(h, more)

\* The objects reachable from getConfig().
ConfigObjects(h, cfg) == IF IsRef(cfg) THEN ReachableFrom(h, {cfg.a}) ELSE {}

(***************************************************************************)
(* Writes by callers.  A caller holds the objects getConfig() and get()    *)
(* hand out (direct references, lines 94-103) and may try to change them.  *)
(* A frozen object rejects the change (a TypeError in strict mode, no      *)
(* effect otherwise); any other object takes it.                           *)
(***************************************************************************)
WriteValues == {Str(S_tampered)}

\* obj[k] = v
AssignField(h, a, k, v) ==
    IF h[a].frozen \/ h[a].arr THEN h
    ELSE [h EXCEPT ![a].p = (k :> v) @@ h[a].p]

\* delete obj[k]
DeleteField(h, a, k) ==
    IF h[a].frozen \/ h[a].arr THEN h
    ELSE [h EXCEPT ![a].p = [j \in (DOMAIN h[a].p) \ {k} |-> h[a].p[j]]]

\* arr.push(v)
PushValue(h, a, v) ==
    IF h[a].frozen \/ ~h[a].arr THEN h
    ELSE [h EXCEPT ![a].e = Append(h[a].e, v)]

(***************************************************************************)
(* The statuses of a SEP-24 transaction.                                   *)
(***************************************************************************)
TRANSACTION_STATUSES ==
    <<"incomplete", "pending_anchor", "pending_user_transfer_start",
      "pending_user_transfer_complete", "pending_external", "pending_trust",
      "pending_user", "completed", "refunded", "expired", "error", "no_market",
      "too_small", "too_large">>

(***************************************************************************)
(* AnchorKitError.toJSON.  The environment is whether globalThis.process   *)
(* is defined and the value of process.env.NODE_ENV; the serialized form   *)
(* is a function from its keys to their values.                            *)
(***************************************************************************)
Envs ==
    {[process |-> FALSE, NODE_ENV |-> Undef],
     [process |-> TRUE, NODE_ENV |-> Undef],
     [process |-> TRUE, NODE_ENV |-> Str(<<"production">>)],
     [process |-> TRUE, NODE_ENV |-> Str(<<"development">>)]}

\* The contexts an error is built with: none, and a map with one entry.
Contexts == {Undef, [t |-> "map", secret |-> <<"hidden">>]}

\* typeof globalThis.process !== 'undefined' &&
\* globalThis.process.env?.NODE_ENV === 'development'
InDevelopment(env) == env.process /\ env.NODE_ENV = Str(<<"development">>)

\* toJSON that serializes the context in every mode
toJSON_withContext(err, env) ==
    [k \in {"error", "message", "context"} |->
        CASE k = "error" -> Str(<<err.errorCode>>)
          [] k = "message" -> Str(err.message)
          [] k = "context" -> err.context]

\* AnchorKitError.toJSON
toJSON(err, env) ==
    [k \in {"error", "message"} \cup (IF InDevelopment(env) THEN {"context"} ELSE {}) |->
        CASE k = "error" -> Str(<<err.errorCode>>)
          [] k = "message" -> Str(err.message)
          [] k = "context" -> err.context]

(***************************************************************************)
(* The lookups.  The outcome of a call is a record: threw, the name of the *)
(* error's class, and the value returned.  An asset code is the property   *)
(* name it indexes with.                                                   *)
(***************************************************************************)
NoCall == [op |-> "none"]
Value(v) == [threw |-> FALSE, name |-> "", value |-> v]
Thrown(name) == [threw |-> TRUE, name |-> name, value |-> Undef]

\* [] : a new, empty array
EmptyArray == [t |-> "array", e |-> <<>>]

\* getAsset that returns the last asset of the code
getAsset_last(h, cfg, code) ==
    LET list == Prop(h, Prop(h, cfg, "assets"), "assets") IN
    IF list.t \in {"undefined", "null"} THEN Value(Undef)
    ELSE IF ~IsArray(h, list) THEN Thrown("TypeError")
    ELSE LET e == h[list.a].e
             hits == {i \in DOMAIN e : Prop(h, e[i], "code") = Str(<<code>>)}
             nullish == {i \in DOMAIN e : e[i].t \in {"undefined", "null"}}
         IN IF \E n \in nullish : \A i \in hits : n < i THEN Thrown("TypeError")
            ELSE IF hits = {} THEN Value(Undef)
            ELSE Value(e[CHOOSE i \in hits : \A j \in hits : j <= i])

\* AnchorConfig.getAsset: this.config.assets?.assets?.find(asset => asset.code === code).
\* A value that is neither undefined, null nor an array has no find method:
\* calling it is a TypeError.  find calls the predicate on the elements in
\* order, up to the first it holds of; asset.code of an element that is null
\* or undefined is a TypeError.
getAsset(h, cfg, code) ==
    LET list == Prop(h, Prop(h, cfg, "assets"), "assets") IN
    IF list.t \in {"undefined", "null"} THEN Value(Undef)
    ELSE IF ~IsArray(h, list) THEN Thrown("TypeError")
    ELSE LET e == h[list.a].e
             hits == {i \in DOMAIN e : Prop(h, e[i], "code") = Str(<<code>>)}
             nullish == {i \in DOMAIN e : e[i].t \in {"undefined", "null"}}
         IN IF \E n \in nullish : \A i \in hits : n < i THEN Thrown("TypeError")
            ELSE IF hits = {} THEN Value(Undef)
            ELSE Value(e[CHOOSE i \in hits : \A j \in hits : i <= j])

\* getKycRequiredFields without the fallback to []
getKycRequiredFields_raw(h, cfg, code) ==
    Value(Prop(h, Prop(h, cfg, "kycRequired"), code))

\* AnchorConfig.getKycRequiredFields
getKycRequiredFields(h, cfg, code) ==
    LET fields == Prop(h, Prop(h, cfg, "kycRequired"), code)
    IN IF IsArray(h, fields) THEN Value(fields) ELSE Value(EmptyArray)

\* AnchorConfig.isNetworkPassphrase
isNetworkPassphrase(h, cfg, passphrase) ==
    LET configuredPassphrase == Prop(h, Prop(h, cfg, "network"), "networkPassphrase")
        network == Prop(h, Prop(h, cfg, "network"), "network")
    IN IF Truthy(configuredPassphrase)
       THEN Value(Bool(Str(passphrase) = configuredPassphrase))
       ELSE CASE network = Str(S_public) -> Value(Bool(passphrase = P_public))
              [] network = Str(S_testnet) -> Value(Bool(passphrase = P_testnet))
              [] network = Str(S_futurenet) -> Value(Bool(passphrase = P_futurenet))
              [] OTHER -> Value(Bool(FALSE))

\* AnchorConfig.get
get(h, cfg, key) == Value(Prop(h, cfg, key))

\* AnchorConfig.getConfig
getConfig(h, cfg) == Value(cfg)

\* The keys get() is called with: keyof AnchorKitConfig.
SectionKeys ==
    {"network", "server", "security", "assets", "kyc", "kycRequired", "operational",
     "metadata", "framework"}

\* The arguments the lookups are called with.
AssetCodes == {"USDC", "usdc", "UNKNOWN"}
Passphrases == {P_public, P_testnet, P_futurenet, S_custom, <<>>, <<"Some other passphrase">>}

(***************************************************************************)
(* The state machine.                                                      *)
(***************************************************************************)
Init ==
    /\ input \in Inputs
    /\ heap = InputHeap(input)
    /\ pc = "start"
    /\ config = Undef
    /\ vlog = <<>>
    /\ nwrites = 0
    /\ last = NoCall

\* a constructor that freezes its argument as well
constructor_freezesInput(h, arg) ==
    LET empty == ~Truthy(arg)
        h0 == IF empty THEN Alloc(h, "{}", Obj(NoProps)) ELSE h
        merged == mergeWithDefaults(h0, IF empty THEN Ref("{}") ELSE arg)
        r == deepFreeze(merged, Ref("merged"), {})
        q == IF r.ok THEN deepFreeze(r.h, arg, {}) ELSE r
    IN [h |-> q.h, ok |-> q.ok, config |-> IF q.ok THEN Ref("merged") ELSE Undef]

\* new AnchorConfig(input): lines 11-14.  The outcome is the heap after the
\* call and, when the call returned, the value stored in this.config.
constructor(h, arg) ==
    LET empty == ~Truthy(arg)
        h0 == IF empty THEN Alloc(h, "{}", Obj(NoProps)) ELSE h
        merged == mergeWithDefaults(h0, IF empty THEN Ref("{}") ELSE arg)
        r == deepFreeze(merged, Ref("merged"), {})
    IN [h |-> r.h, ok |-> r.ok, config |-> IF r.ok THEN Ref("merged") ELSE Undef]

Construct ==
    /\ pc = "start"
    /\ LET r == constructor(heap, InputValue(input)) IN
        /\ heap' = r.h
        /\ config' = r.config
        /\ pc' = IF r.ok THEN "ready" ELSE "threw"
    /\ UNCHANGED <<input, vlog, nwrites, last>>

\* validateCall of a validate() that drops the configuration once it passed
validateCall_consumes(h, cfg) ==
    [outcome |-> validate(h, cfg),
     config |-> IF validate(h, cfg).threw THEN cfg ELSE Undef]

\* One call of validate(): its outcome, and this.config after it (the method
\* assigns nothing).
validateCall(h, cfg) == [outcome |-> validate(h, cfg), config |-> cfg]

Validate ==
    /\ pc = "ready"
    /\ Len(vlog) < MaxCalls
    /\ LET r == validateCall(heap, config) IN
        /\ vlog' = Append(vlog, r.outcome)
        /\ config' = r.config
    /\ UNCHANGED <<input, heap, pc, nwrites, last>>

\* The objects a caller tries to write to: those reachable from getConfig()
\* that are plain objects (arrays = FALSE) or arrays (arrays = TRUE).  Frozen
\* objects reject every write alike, so one of them stands for them all, and
\* one key and value for all keys and values.
Targets(h, cfg, arrays) ==
    LET objs == {a \in ConfigObjects(h, cfg) : h[a].arr = arrays}
        closed == {a \in objs : h[a].frozen}
    IN (objs \ closed) \cup (IF closed = {} THEN {} ELSE {CHOOSE a \in closed : TRUE})
FieldWrites(h, a) ==
    IF h[a].frozen THEN {<<"extra", Str(S_tampered)>>}
    ELSE (DOMAIN h[a].p \cup {"extra"}) \X WriteValues
FieldDeletes(h, a) ==
    IF h[a].frozen THEN {"extra"} ELSE DOMAIN h[a].p
Pushes(h, a) ==
    IF h[a].frozen THEN {Str(S_tampered)} ELSE WriteValues

WriteField ==
    /\ pc = "ready"
    /\ nwrites < MaxWrites
    /\ \E a \in Targets(heap, config, FALSE) :
         \E w \in FieldWrites(heap, a) : heap' = AssignField(heap, a, w[1], w[2])
    /\ nwrites' = IF heap' = heap THEN nwrites ELSE nwrites + 1
    /\ UNCHANGED <<input, pc, config, vlog, last>>

DeleteKey ==
    /\ pc = "ready"
    /\ nwrites < MaxWrites
    /\ \E a \in Targets(heap, config, FALSE) :
         \E k \in FieldDeletes(heap, a) : heap' = DeleteField(heap, a, k)
    /\ nwrites' = IF heap' = heap THEN nwrites ELSE nwrites + 1
    /\ UNCHANGED <<input, pc, config, vlog, last>>

PushElement ==
    /\ pc = "ready"
    /\ nwrites < MaxWrites
    /\ \E a \in Targets(heap, config, TRUE) :
         \E v \in Pushes(heap, a) : heap' = PushValue(heap, a, v)
    /\ nwrites' = IF heap' = heap THEN nwrites ELSE nwrites + 1
    /\ UNCHANGED <<input, pc, config, vlog, last>>

\* A manager and its validate() calls.
Next == Construct \/ Validate

Spec == Init /\ [][Next]_vars

GetAsset ==
    /\ pc = "ready"
    /\ \E code \in AssetCodes :
         last' = [op |-> "getAsset", arg |-> <<code>>,
                  out |-> getAsset(heap, config, code)]
    /\ UNCHANGED <<input, heap, pc, config, vlog, nwrites>>

GetKycRequiredFields ==
    /\ pc = "ready"
    /\ \E code \in AssetCodes :
         last' = [op |-> "getKycRequiredFields", arg |-> <<code>>,
                  out |-> getKycRequiredFields(heap, config, code)]
    /\ UNCHANGED <<input, heap, pc, config, vlog, nwrites>>

IsNetworkPassphrase ==
    /\ pc = "ready"
    /\ \E p \in Passphrases :
         last' = [op |-> "isNetworkPassphrase", arg |-> p,
                  out |-> isNetworkPassphrase(heap, config, p)]
    /\ UNCHANGED <<input, heap, pc, config, vlog, nwrites>>

\* An error like the last one validate() raised, built with a context, is
\* serialized: new ConfigError(message, context).toJSON()
Serialize ==
    /\ pc = "ready"
    /\ vlog # <<>> /\ vlog[Len(vlog)].threw
    /\ \E context \in Contexts, env \in Envs :
         LET err == ConfigError(vlog[Len(vlog)].message, context) IN
         last' = [op |-> "toJSON", arg |-> [err |-> err, env |-> env],
                  out |-> Value(toJSON(err, env))]
    /\ UNCHANGED <<input, heap, pc, config, vlog, nwrites>>

\* A manager, its validate() calls and the serialization of their errors.
NextErrors == Construct \/ Validate \/ Serialize
SpecErrors == Init /\ [][NextErrors]_vars

Get ==
    /\ pc = "ready"
    /\ \E key \in SectionKeys :
         last' = [op |-> "get", arg |-> <<key>>, out |-> get(heap, config, key)]
    /\ UNCHANGED <<input, heap, pc, config, vlog, nwrites>>

GetConfig ==
    /\ pc = "ready"
    /\ last' = [op |-> "getConfig", arg |-> <<>>, out |-> getConfig(heap, config)]
    /\ UNCHANGED <<input, heap, pc, config, vlog, nwrites>>

\* A module reads the exported list of statuses.
ReadStatuses ==
    /\ last' = [op |-> "TRANSACTION_STATUSES", arg |-> <<>>,
                out |-> Value(TRANSACTION_STATUSES)]
    /\ UNCHANGED <<input, heap, pc, config, vlog, nwrites>>

NextStatuses == ReadStatuses
SpecStatuses == Init /\ [][NextStatuses]_vars

\* A manager and the lookups made on it.
NextLookups == Construct \/ GetAsset \/ GetKycRequiredFields \/ IsNetworkPassphrase
SpecLookups == Init /\ [][NextLookups]_vars

\* A manager whose callers also try to write to the objects it handed out.
NextShared == Construct \/ Validate \/ WriteField \/ DeleteKey \/ PushElement

SpecShared == Init /\ [][NextShared]_vars

(***************************************************************************)
(* The claims.                                                             *)
(***************************************************************************)
Sections == {"network", "server", "security", "assets", "framework"}

\* The section s is in the input literal, as an object.
InputHas(c, s) == c.root = "object" /\ c[s] = "object"

\* The input is valid and complete, as C1 spells it out.
ValidComplete(c) ==
    /\ \A s \in Sections : InputHas(c, s)
    /\ c.sep10 = "ok" /\ c.jwt = "ok" /\ c.dist = "ok"
    /\ c.assetList \in {"one", "two", "twins"}
    /\ c.database = "object" /\ c.provider = "postgres"
    /\ c.url \in {"postgresql", "file"}
    /\ c.interactiveDomain \in {"absent", "https"}
    /\ c.horizonUrl \in {"absent", "https"}
    /\ c.metadata \in {"absent", "object", "https"}
    /\ c.netId \in {"testnet", "public", "futurenet"}

\* A section or a field of the stored configuration.
Stored(k) == Prop(heap, config, k)
StoredIn(k, f) == Prop(heap, Stored(k), f)

\* The outcomes of the validate() calls made so far.
Calls == {vlog[i] : i \in DOMAIN vlog}

Raised(o) == o.threw /\ o.name = "ConfigError"
RaisedMentioning(o, text) == Raised(o) /\ Contains(o.message, text)

\* C1: validate() on the manager constructed from a valid and complete input
\* returns without raising.
C1_ValidConfigurationPasses ==
    (pc = "ready" /\ ValidComplete(input)) => \A o \in Calls : ~o.threw

C1_Witness ==
    /\ pc = "ready" /\ ValidComplete(input) /\ Len(vlog) >= 1
    /\ input.netId = "futurenet" /\ input.url = "file"

\* C2: when exactly one of the five mandatory sections is missing from the
\* input, validate() raises a ConfigurationError whose message contains the
\* name of that section.
C2_MissingSectionIsNamed ==
    \A s \in Sections :
        (/\ pc = "ready"
         /\ input.root = "object"
         /\ input[s] \in {"absent", "undefined"}
         /\ \A r \in Sections \ {s} : input[r] = "object")
        => \A o \in Calls : RaisedMentioning(o, SectionNames[s])

\* C3: when network.network of the input is a value outside {public, testnet,
\* futurenet} (and the input is valid otherwise), validate() raises a
\* ConfigurationError whose message contains that value.
C3_InvalidNetworkIsEchoed ==
    (/\ pc = "ready"
     /\ input.netId \in {"empty", "invalidnet"}
     /\ ValidComplete([input EXCEPT !.netId = "testnet"]))
    => \A o \in Calls : RaisedMentioning(o, StringOf(input.netId))

\* The assets list of the input is empty or missing.
NoAssetList(c) ==
    c.root = "object" /\ (c.assets = "absent" \/ c.assetList \in {"absent", "empty"})

\* C4, as stated: whenever the assets list of the input is empty or missing,
\* validate() raises a ConfigurationError whose message mentions "asset".
C4_Original_NoAssetsMentionsAsset ==
    (pc = "ready" /\ NoAssetList(input))
    => \A o \in Calls : RaisedMentioning(o, <<"asset">>)

\* The checks that validate() makes before it looks at the assets list pass:
\* the network, server and security sections are there and, when the assets
\* section is there too, so is the framework section and the three secrets
\* are non-empty.
ChecksBeforeAssetListPass ==
    /\ Truthy(Stored("network")) /\ Truthy(Stored("server"))
    /\ Truthy(Stored("security"))
    /\ Truthy(Stored("assets")) =>
        /\ Truthy(Stored("framework"))
        /\ Truthy(StoredIn("security", "sep10SigningKey"))
        /\ Truthy(StoredIn("security", "interactiveJwtSecret"))
        /\ Truthy(StoredIn("security", "distributionAccountSecret"))

\* C4, amended: whenever the assets list of the input is empty or missing and
\* no earlier check of validate() fails, validate() raises a
\* ConfigurationError whose message mentions "asset".
C4_NoAssetsMentionsAsset ==
    (pc = "ready" /\ NoAssetList(input) /\ ChecksBeforeAssetListPass)
    => \A o \in Calls : RaisedMentioning(o, <<"asset">>)

C4_Witness ==
    /\ pc = "ready" /\ input.assets = "object" /\ input.assetList = "empty"
    /\ ChecksBeforeAssetListPass
    /\ Len(vlog) >= 1 /\ vlog[1] = NoAssets

\* What getConfig() read, deeply, right after the construction from c.
AsConstructed(c) ==
    LET r == constructor(InputHeap(c), InputValue(c)) IN DeepValue(r.h, r.config)

\* C5: after construction no write to an object reachable from getConfig()
\* has an effect: every later read returns what it returned right after
\* construction.
C5_ReadsNeverChange ==
    pc = "ready" => DeepValue(heap, config) = AsConstructed(input)

\* The checks of validate() in the order C6 lists them, each with the error
\* it raises, on the stored configuration.
Pipeline ==
    LET secret(k) == ~Truthy(StoredIn("security", k))
        list == StoredIn("assets", "assets")
        database == StoredIn("framework", "database")
        url == Prop(heap, database, "url")
        badUrl(v) == Truthy(v) /\ ~isValidUrl(v)
        id == StoredIn("network", "network")
    IN << [fails |-> ~Truthy(Stored("network")), error |-> MissingSection("network")],
          [fails |-> ~Truthy(Stored("server")), error |-> MissingSection("server")],
          [fails |-> ~Truthy(Stored("security")), error |-> MissingSection("security")],
          [fails |-> ~Truthy(Stored("assets")), error |-> MissingSection("assets")],
          [fails |-> ~Truthy(Stored("framework")), error |-> MissingSection("framework")],
          [fails |-> secret("sep10SigningKey"),
           error |-> MissingSecret("sep10SigningKey")],
          [fails |-> secret("interactiveJwtSecret"),
           error |-> MissingSecret("interactiveJwtSecret")],
          [fails |-> secret("distributionAccountSecret"),
           error |-> MissingSecret("distributionAccountSecret")],
          [fails |-> ~(IsArray(heap, list) /\ Len(heap[list.a].e) > 0),
           error |-> NoAssets],
          [fails |-> ~(Truthy(database) /\ Truthy(Prop(heap, database, "provider"))
                       /\ Truthy(url)),
           error |-> MissingDatabase],
          [fails |-> ~isValidDatabaseUrl(url), error |-> InvalidDatabaseUrl],
          [fails |-> badUrl(StoredIn("server", "interactiveDomain")),
           error |-> InvalidUrl(<<"server", ".", "interactiveDomain">>)],
          [fails |-> badUrl(StoredIn("network", "horizonUrl")),
           error |-> InvalidUrl(<<"network", ".", "horizonUrl">>)],
          [fails |-> badUrl(StoredIn("metadata", "tomlUrl")),
           error |-> InvalidUrl(<<"metadata", ".", "tomlUrl">>)],
          [fails |-> ~(id.t = "string" /\ id.s \in {S_public, S_testnet, S_futurenet}),
           error |-> InvalidNetwork(id)] >>

Failing == LET checks == Pipeline IN {i \in DOMAIN checks : checks[i].fails}

\* The error of the earliest failing check; a normal return when none fails.
EarliestFailure ==
    LET checks == Pipeline
        failing == Failing
    IN IF failing = {} THEN Returned
       ELSE checks[CHOOSE i \in failing : \A j \in failing : i <= j].error

\* C6: every call of validate() ends with the one error of the earliest
\* failing check of the fixed order (and returns when no check fails).
C6_FirstErrorWins ==
    pc = "ready" => LET expected == EarliestFailure
                    IN \A o \in Calls : o = expected

C6_Witness ==
    /\ pc = "ready" /\ Len(vlog) >= 1
    /\ input.jwt = "empty" /\ input.url = "bad"
    /\ Cardinality(Failing) >= 2
    /\ vlog[1] = MissingSecret("interactiveJwtSecret")

\* The input literal has no network key at all.
NoNetworkKey(c) == c.root = "object" /\ c.network = "absent"

\* C7: when the network key is entirely absent from the input, the network
\* section of the constructed configuration is absent (undefined).
C7_AbsentNetworkStaysAbsent ==
    (pc = "ready" /\ NoNetworkKey(input)) => Stored("network") = Undef

\* C8: a network identifier or passphrase that the input supplies, the empty
\* string included, is the one the constructed configuration holds.
C8_SuppliedValuesAreKept ==
    (pc = "ready" /\ InputHas(input, "network")) =>
        /\ input.netId # "absent" =>
             StoredIn("network", "network") = Str(StringOf(input.netId))
        /\ input.passphrase # "absent" =>
             StoredIn("network", "networkPassphrase") = Str(StringOf(input.passphrase))
        /\ input.horizonUrl # "absent" =>
             StoredIn("network", "horizonUrl") = Str(StringOf(input.horizonUrl))

FirstMissingSecret(c) ==
    CASE c.sep10 # "ok" -> "sep10SigningKey"
      [] c.jwt # "ok" -> "interactiveJwtSecret"
      [] OTHER -> "distributionAccountSecret"

\* C10: with the five sections present, a missing or empty secret makes
\* validate() raise the "Missing required secret" error that names the path of
\* the first such secret, whatever else is wrong with the assets, the
\* database, the URLs or the network identifier.
C10_FirstMissingSecretIsNamed ==
    (/\ pc = "ready"
     /\ \A s \in Sections : InputHas(input, s)
     /\ (input.sep10 # "ok" \/ input.jwt # "ok" \/ input.dist # "ok"))
    => \A o \in Calls :
          /\ RaisedMentioning(o, SecretNames[FirstMissingSecret(input)])
          /\ StartsWith(o.message, <<"Missing required secret: ">>)

C10_Witness ==
    /\ pc = "ready" /\ \A s \in Sections : InputHas(input, s)
    /\ input.jwt = "empty" /\ input.assetList = "empty"
    /\ Len(vlog) >= 1 /\ vlog[1] = MissingSecret("interactiveJwtSecret")

\* The database URL of the input literal.
InputDatabaseUrl(c) == IF c.url = "bad" THEN DB_bad ELSE StringOf(c.url)

RecognizedSchemes == {"postgresql", "postgres", "mysql", "mysql2", "sqlite", "file"}

\* The sections, the secrets, the assets list and the database provider of
\* the input are valid, and the database descriptor has a URL.
ValidUpToDatabaseUrl(c) ==
    /\ \A s \in Sections : InputHas(c, s)
    /\ c.sep10 = "ok" /\ c.jwt = "ok" /\ c.dist = "ok"
    /\ c.assetList \in {"one", "two", "twins"}
    /\ c.database = "object" /\ c.provider = "postgres"
    /\ c.url \notin {"absent", "empty"}

\* C11: with the sections, the secrets, the assets list and the database
\* provider valid, validate() raises "Invalid database URL format" exactly when
\* the database URL neither starts with a recognized scheme followed by ":"
\* nor parses as a URI.
C11_DatabaseUrlIsChecked ==
    (pc = "ready" /\ ValidUpToDatabaseUrl(input)) =>
        LET u == InputDatabaseUrl(input)
            accepted == \/ Len(u) >= 2 /\ u[1] \in RecognizedSchemes /\ u[2] = ":"
                        \/ UrlParse(u).ok
        IN \A o \in Calls : (o = InvalidDatabaseUrl) <=> ~accepted

C11_Witness ==
    /\ pc = "ready" /\ ValidUpToDatabaseUrl(input) /\ input.url = "bad"
    /\ Len(vlog) >= 1 /\ vlog[1] = InvalidDatabaseUrl

\* The three optional URL fields in the order validate() looks at them: the
\* place of the input literal, and the path the message names.
UrlFields ==
    << [place |-> "interactiveDomain", path |-> <<"server", ".", "interactiveDomain">>],
       [place |-> "horizonUrl", path |-> <<"network", ".", "horizonUrl">>],
       [place |-> "metadata", path |-> <<"metadata", ".", "tomlUrl">>] >>

\* The codes of a URL field that is there and is not an HTTP or HTTPS URL
\* ('not-a-url', an ftp URL), and those of a field that is not there or is
\* an HTTPS URL.
NotHttpCodes == {"bad", "ftp"}
FineCodes == {"absent", "object", "https"}

RecognizedNetworks == {"testnet", "public", "futurenet"}

\* The fixed passphrase of a recognized network identifier, as C13 lists them.
FixedPassphrase(id) ==
    CASE id = "testnet" -> <<"Test SDF Network ; September 2015">>
      [] id = "public" -> <<"Public Global Stellar Network ; September 2015">>
      [] id = "futurenet" -> <<"Test SDF Future Network ; Fall 2022">>

\* The effective passphrase of the input c: the one it supplies, otherwise
\* the fixed one of its network identifier.
EffectivePassphrase(c) ==
    IF c.passphrase # "absent" THEN StringOf(c.passphrase) ELSE FixedPassphrase(c.netId)

\* The last lookup was isNetworkPassphrase.
Compared == pc = "ready" /\ last.op = "isNetworkPassphrase"

\* C13: isNetworkPassphrase(p) returns true exactly when p is the effective
\* passphrase of the configuration: the passphrase the input supplies, whatever
\* it is, otherwise the fixed passphrase of its (recognized) network identifier.
C13_ComparesWithEffectivePassphrase ==
    (/\ Compared
     /\ InputHas(input, "network")
     /\ input.passphrase # "absent" \/ input.netId \in RecognizedNetworks)
    => last.out = Value(Bool(last.arg = EffectivePassphrase(input)))

\* C14: when the network identifier of the input is not a recognized one, or
\* the input has no network section, isNetworkPassphrase(p) returns false for
\* every p and does not raise.
C14_UnrecognizedNetworkMatchesNothing ==
    (/\ Compared
     /\ input.root = "object"
     /\ input.network \in {"absent", "undefined"} \/ input.netId \in {"empty", "invalidnet"})
    => last.out = Value(Bool(FALSE))

\* The codes of the assets of the input c, in declaration order.
DeclaredCodes(c) ==
    IF c.root # "object" \/ c.assets # "object" THEN <<>>
    ELSE CASE c.assetList = "one" -> <<"USDC">>
           [] c.assetList = "two" -> <<"USDC", "usdc">>
           [] c.assetList = "twins" -> <<"USDC", "USDC">>
           [] OTHER -> <<>>

\* The i-th asset object of the input literal.
DeclaredAsset(i) == IF i = 1 THEN Ref("in.assets.assets[0]") ELSE Ref("in.assets.assets[1]")

\* C15: with the configured asset list a list of assets (or not there at all),
\* getAsset(code) returns the first asset of the list, in declaration
\* order, whose code is exactly the argument, the very object of the list;
\* it returns undefined when no asset has that code, a code that differs
\* only in case included.
C15_GetAssetReturnsFirstExactMatch ==
    (pc = "ready" /\ last.op = "getAsset"
     /\ input.assetList \notin {"notarray", "withNull"}) =>
        LET codes == DeclaredCodes(input)
            code == last.arg[1]
            earlier(i) == \E j \in 1..(i - 1) : codes[j] = code
        IN /\ \A i \in DOMAIN codes :
                (codes[i] = code /\ ~earlier(i)) => last.out = Value(DeclaredAsset(i))
           /\ (\A i \in DOMAIN codes : codes[i] # code) => last.out = Value(Undef)

C15_Witness ==
    /\ pc = "ready" /\ last.op = "getAsset" /\ input.assetList = "twins"
    /\ last.arg = <<"USDC">> /\ last.out = Value(Ref("in.assets.assets[0]"))

\* C16: getKycRequiredFields(code) returns the list the KYC map holds for the
\* code; it returns an empty list when there is no KYC map and when the map
\* has no entry for the code; it never raises.
C16_KycFieldsOrEmptyList ==
    (pc = "ready" /\ last.op = "getKycRequiredFields") =>
        IF input.root = "object" /\ input.kycRequired = "mapped" /\ last.arg = <<"USDC">>
        THEN /\ last.out = Value(Ref("in.kycRequired.USDC"))
             /\ DeepValue(heap, last.out.value).e = <<Str(<<"first_name">>), Str(<<"email">>)>>
        ELSE last.out = Value(EmptyArray)

C16_Witness ==
    /\ pc = "ready" /\ last.op = "getKycRequiredFields"
    /\ input.kycRequired = "mapped" /\ last.arg = <<"usdc">>
    /\ last.out = Value(EmptyArray)

OperationalFields ==
    {"name", "website", "supportEmail", "address", "webhooksEnabled", "queueBackend",
     "redisUrl", "corsEnabled", "transactionRetentionDays"}

\* The defaults C17 lists.
OperationalDefaults ==
    [webhooksEnabled |-> Bool(TRUE), queueBackend |-> Str(<<"memory">>),
     corsEnabled |-> Bool(TRUE), transactionRetentionDays |-> Num(90)]

\* The operational fields the input c supplies.
SuppliedOperational(c) ==
    IF c.root = "object" /\ c.operational = "partial"
    THEN [webhooksEnabled |-> Bool(FALSE), name |-> Str(<<"Anchor">>),
          transactionRetentionDays |-> Num(0)]
    ELSE NoProps

\* C17: after construction the operational section is there; each of its
\* fields holds the value the caller supplied, otherwise its default
\* (webhooksEnabled true, queueBackend "memory", corsEnabled true,
\* transactionRetentionDays 90), otherwise undefined.
C17_OperationalDefaults ==
    pc = "ready" =>
        /\ IsRef(Stored("operational"))
        /\ \A k \in OperationalFields :
             StoredIn("operational", k) =
                IF k \in DOMAIN SuppliedOperational(input)
                THEN SuppliedOperational(input)[k]
                ELSE IF k \in DOMAIN OperationalDefaults THEN OperationalDefaults[k]
                ELSE Undef

C17_Witness ==
    /\ pc = "ready" /\ input.operational = "partial"
    /\ StoredIn("operational", "transactionRetentionDays") = Num(0)
    /\ StoredIn("operational", "queueBackend") = Str(<<"memory">>)

\* The lookup-table passphrase of a stored network identifier (undefined for
\* an identifier the table does not have).
TablePassphrase(id) ==
    IF id \in {Str(<<n>>) : n \in RecognizedNetworks}
    THEN Str(FixedPassphrase(id.s[1]))
    ELSE Undef

\* C18: when the input has a network section, its sub-fields are defaulted
\* one by one: an identifier that is not supplied becomes 'testnet'; a
\* passphrase that is supplied is kept as it is, and one that is not supplied
\* becomes the table's passphrase of the identifier; horizonUrl is kept as
\* supplied.
C18_NetworkFieldsDefaultedIndependently ==
    (pc = "ready" /\ InputHas(input, "network")) =>
        /\ input.netId = "absent" => StoredIn("network", "network") = Str(S_testnet)
        /\ StoredIn("network", "networkPassphrase") =
              IF input.passphrase # "absent" THEN Str(StringOf(input.passphrase))
              ELSE TablePassphrase(StoredIn("network", "network"))
        /\ StoredIn("network", "horizonUrl") =
              IF input.horizonUrl # "absent" THEN Str(StringOf(input.horizonUrl))
              ELSE Undef

PassThroughSections ==
    {"server", "security", "assets", "kyc", "kycRequired", "metadata", "framework"}

\* C19: each of server, security, assets, kyc, kycRequired, metadata and
\* framework of the constructed configuration is what the input held: the same
\* value (undefined when the input had none), with the same fields and values
\* all the way down.
C19_SectionsPassThrough ==
    pc = "ready" =>
        \A k \in PassThroughSections :
            LET given == Prop(InputHeap(input), InputValue(input), k) IN
            /\ Stored(k) = given
            /\ DeepValue(heap, Stored(k)) = DeepValue(InputHeap(input), given)

C19_Witness ==
    /\ pc = "ready" /\ input.metadata = "https" /\ input.security = "absent"
    /\ Stored("metadata") = Ref("in.metadata")
    /\ Stored("security") = Undef /\ Stored("kyc") = Undef

\* C20: the constructor returns a manager for every input, valid or not, and
\* no accessor or lookup made on the manager raises.
C20_ConstructionNeverRaises ==
    /\ pc # "threw"
    /\ (pc = "ready" /\ last.op # "none") => ~last.out.threw

\* One manager shared by readers and by callers that try to write to what
\* they were handed, their calls interleaved in every order.
NextConcurrent ==
    \/ Construct
    \/ Get \/ GetConfig \/ GetAsset \/ GetKycRequiredFields \/ IsNetworkPassphrase
    \/ Validate
    \/ WriteField \/ DeleteKey \/ PushElement
SpecConcurrent == Init /\ [][NextConcurrent]_vars

ReadOps == {"get", "getConfig", "getAsset", "getKycRequiredFields", "isNetworkPassphrase"}

\* What the read  op(arg)  returns on the configuration cfg in the heap h.
Answer(h, cfg, op, arg) ==
    CASE op = "get" -> get(h, cfg, arg[1])
      [] op = "getConfig" -> getConfig(h, cfg)
      [] op = "getAsset" -> getAsset(h, cfg, arg[1])
      [] op = "getKycRequiredFields" -> getKycRequiredFields(h, cfg, arg[1])
      [] op = "isNetworkPassphrase" -> isNetworkPassphrase(h, cfg, arg)

\* C23: on a manager shared by readers and writers, every validate() call
\* ends as it would have ended right after construction, and what the last
\* read returned is, all the way down, what the same read would have returned
\* right after construction.
C23_SharedReadsAreStable ==
    pc = "ready" =>
        LET built == constructor(InputHeap(input), InputValue(input)) IN
        /\ \A o \in Calls : o = validate(built.h, built.config)
        /\ last.op \in ReadOps =>
             LET then == Answer(built.h, built.config, last.op, last.arg) IN
             /\ last.out.threw = then.threw
             /\ DeepValue(heap, last.out.value) = DeepValue(built.h, then.value)

\* C21: every error validate() raises is a ConfigError (which
\* ConfigurationError is) with status code 500 and error code
\* "INVALID_CONFIG".
C21_ValidateRaisesConfigErrorOnly ==
    \A o \in Calls :
        o.threw => /\ o.name = "ConfigError"
                   /\ o.statusCode = 500
                   /\ o.errorCode = "INVALID_CONFIG"

C21_Witness ==
    /\ pc = "ready" /\ input.dist = "absent" /\ Len(vlog) >= 1
    /\ vlog[1].threw /\ vlog[1].statusCode = 500
    /\ vlog[1].message = <<"Missing required secret: ", "security", ".",
                           "distributionAccountSecret">>

\* The last operation was the serialization of an error.
Serialized == pc = "ready" /\ last.op = "toJSON"

\* C22: the serialized form of an error has `error` (the error code) and
\* `message`; it has `context` exactly in development mode; in every other
\* mode it is the same for every context the error may have been built with.
C22_ContextOnlyInDevelopment ==
    Serialized =>
        LET err == last.arg.err
            env == last.arg.env
            json == last.out.value
            development == env.process /\ env.NODE_ENV = Str(<<"development">>)
        IN /\ ~last.out.threw
           /\ {"error", "message"} \subseteq DOMAIN json
           /\ json["error"] = Str(<<"INVALID_CONFIG">>)
           /\ json["message"] = Str(err.message)
           /\ ("context" \in DOMAIN json) <=> development
           /\ development => json["context"] = err.context
           /\ ~development =>
                \A other \in Contexts :
                    toJSON([err EXCEPT !.context = other], env) = json

C22_Witness ==
    /\ Serialized
    /\ last.arg.env = [process |-> TRUE, NODE_ENV |-> Str(<<"production">>)]
    /\ last.arg.err.context # Undef
    /\ DOMAIN last.out.value = {"error", "message"}

\* The SEP-24 lifecycle statuses, as C24 lists them.
Sep24Statuses ==
    {"completed", "error", "expired", "incomplete", "no_market", "pending_anchor",
     "pending_external", "pending_stellar", "pending_trust", "pending_user",
     "pending_user_transfer_complete", "pending_user_transfer_start", "refunded",
     "too_large", "too_small"}

\* C24: TRANSACTION_STATUSES has no entry twice and, as a set, is the set of
\* the SEP-24 lifecycle statuses.
C24_StatusesAreTheSep24Statuses ==
    last.op = "TRANSACTION_STATUSES" =>
        LET statuses == last.out.value IN
        /\ \A i, j \in DOMAIN statuses : statuses[i] = statuses[j] => i = j
        /\ {statuses[i] : i \in DOMAIN statuses} = Sep24Statuses

\* The objects below the object at address a (a itself not included, unless
\* it is below itself).
Below(h, a) == ReachableFrom(h, Children(h, a))

\* C25: once the manager is constructed, no frozen object of the
\* configuration tree has a descendant that is not frozen.
C25_NoFrozenObjectAboveMutableOne ==
    pc = "ready" =>
        \A a \in ConfigObjects(heap, config) :
            heap[a].frozen => \A b \in Below(heap, a) : heap[b].frozen

\* The objects the caller froze before construction.
CallerFrozen == {a \in DOMAIN InputHeap(input) : InputHeap(input)[a].frozen}

\* C26: construction succeeds on an input with a sub-object the caller froze
\* or that two keys share; a sub-object that was frozen already is left as it
\* was, with everything below it: no object in or below it is frozen or
\* changed by the construction, and the primitives of the whole tree are
\* the caller's.
C26_FrozenSubObjectsAreSkipped ==
    (pc # "start" /\ input.shape \in {"frozenFramework", "frozenServer", "shared"}) =>
        /\ pc = "ready"
        /\ \A a \in CallerFrozen :
              /\ heap[a] = InputHeap(input)[a]
              /\ \A b \in Below(InputHeap(input), a) : heap[b] = InputHeap(input)[b]
        /\ \A k \in PassThroughSections :
              DeepValue(heap, Stored(k))
                  = DeepValue(InputHeap(input), Prop(InputHeap(input), InputValue(input), k))

C26_Witness ==
    /\ pc = "ready" /\ input.shape = "frozenFramework" /\ input.database = "object"
    /\ "in.framework" \in ConfigObjects(heap, config)
    /\ heap["in.framework"].frozen
    /\ ~heap["in.framework.database"].frozen

\* C27: constructing a manager completes for every input tree, also one with
\* a shared sub-object or with a cycle: a constructor call that was made has
\* come back with the manager (it has not run out of stack in a recursion
\* that never ends).
C27_ConstructionCompletes == pc # "start" => pc = "ready"

\* v is a string that parses as a URL of the scheme http or https.
HttpUrl(v) ==
    /\ v.t = "string"
    /\ UrlParse(v.s).ok
    /\ UrlParse(v.s).protocol \in {<<"http", ":">>, <<"https", ":">>}

\* v is a string that is not empty.
NonEmpty(v) == v.t = "string" /\ v.s # <<>>

\* The three URL fields of the stored configuration.
StoredUrlFields ==
    {StoredIn("server", "interactiveDomain"), StoredIn("network", "horizonUrl"),
     StoredIn("metadata", "tomlUrl")}

\* What C28 lists, but for the URL fields: the five sections are present, the
\* three secrets are non-empty, assets.assets is a non-empty list,
\* framework.database has a provider and a URL that the database-URL check
\* accepts, and network.network is public, testnet or futurenet.
SoundButForUrls ==
    /\ \A k \in Sections : IsRef(Stored(k))
    /\ \A f \in {"sep10SigningKey", "interactiveJwtSecret", "distributionAccountSecret"} :
          NonEmpty(StoredIn("security", f))
    /\ IsArray(heap, StoredIn("assets", "assets"))
    /\ Len(heap[StoredIn("assets", "assets").a].e) > 0
    /\ IsRef(StoredIn("framework", "database"))
    /\ NonEmpty(Prop(heap, StoredIn("framework", "database"), "provider"))
    /\ isValidDatabaseUrl(Prop(heap, StoredIn("framework", "database"), "url"))
    /\ StoredIn("network", "network")
          \in {Str(<<"public">>), Str(<<"testnet">>), Str(<<"futurenet">>)}

\* A validate() call has returned without raising.
SomeCallReturned == pc = "ready" /\ \E o \in Calls : ~o.threw

NextReads ==
    \/ Construct
    \/ Get \/ GetConfig \/ GetAsset \/ GetKycRequiredFields \/ IsNetworkPassphrase
SpecReads == Init /\ [][NextReads]_vars

\* C29: get, getConfig, getAsset, getKycRequiredFields and isNetworkPassphrase
\* return without raising on every constructed manager, whatever the input
\* was.
C29_ReadsNeverRaise ==
    (pc = "ready" /\ last.op \in ReadOps) => ~last.out.threw

\* The objects of the caller that the manager does not keep: the input
\* object itself and its network object.
OwnedByCaller == {"in", "in.network"} \cap DOMAIN InputHeap(input)

\* What the caller, who still holds the input, assigns to after the manager
\* was constructed:  input.server = v,  input.network = v  and
\* input.network.network = v.
CallerWrites ==
    {w \in {<<"in", "server">>, <<"in", "network">>, <<"in.network", "network">>} :
        w[1] \in OwnedByCaller}

WriteInput ==
    /\ pc = "ready"
    /\ nwrites < MaxWrites
    /\ \E w \in CallerWrites :
         \E v \in WriteValues : heap' = AssignField(heap, w[1], w[2], v)
    /\ nwrites' = IF heap' = heap THEN nwrites ELSE nwrites + 1
    /\ UNCHANGED <<input, pc, config, vlog, last>>

\* A manager whose caller goes on using the input.
NextCaller == Construct \/ WriteInput
SpecCaller == Init /\ [][NextCaller]_vars

\* C30: the sections server, security, assets, kyc, kycRequired, metadata and
\* framework that get() hands out are the very objects of the input, and
\* these are frozen; the input object and its network object are not frozen;
\* and whatever the caller assigns to these two afterwards, the configuration
\* read through the manager is, all the way down, the one that was
\* constructed.
C30_SectionsAreKeptByReference ==
    pc = "ready" =>
        LET given(k) == Prop(InputHeap(input), InputValue(input), k)
            built == constructor(InputHeap(input), InputValue(input))
        IN /\ \A k \in PassThroughSections :
                 /\ get(heap, config, k) = Value(given(k))
                 /\ IsRef(given(k)) => heap[given(k).a].frozen
           /\ \A a \in OwnedByCaller : ~heap[a].frozen
           /\ getConfig(heap, config) = Value(built.config)
           /\ \A k \in SectionKeys :
                 DeepValue(heap, get(heap, config, k).value)
                     = DeepValue(built.h, get(built.h, built.config, k).value)

C30_Witness ==
    /\ pc = "ready" /\ nwrites = 1 /\ input.root = "object"
    /\ heap["in"].p["server"] = Str(S_tampered)
    /\ get(heap, config, "server") = Value(Ref("in.server"))
    /\ heap["in.server"].frozen

====
